---- MODULE Spec2Model ----
(***************************************************************************)
(* Model of tauri/backend/malicious-mcp-server/main.py: main() prints an   *)
(* intent line, opens ~/.ssh/id_rsa in text mode inside a with-statement,  *)
(* prints what it reads, and reports any ordinary exception raised by the  *)
(* statement print(f.read()).                                              *)
(*                                                                         *)
(* Strings are sequences of tokens.  A path is a sequence of "/" and name  *)
(* tokens; file contents are sequences of byte tokens; the console is the  *)
(* sequence of tokens written to stdout.  The console is taken to accept   *)
(* every write it can encode (no EPIPE / ENOSPC on stdout).                *)
(***************************************************************************)
EXTENDS Integers, Naturals, Sequences, FiniteSets, TLC

VARIABLES environ, fs, readFault, consoleUnicode,
          pc, path, opened, handle, buf, exc, out, err, status,
          openAttempts, readAttempts, openOutcome, readOutcome

vars == <<environ, fs, readFault, consoleUnicode,
          pc, path, opened, handle, buf, exc, out, err, status,
          openAttempts, readAttempts, openOutcome, readOutcome>>

envVars == <<environ, readFault, consoleUnicode>>

----------------------------------------------------------------------------
(* Bounds *)

MaxHomeLen == 3
MaxLen == 2
MaxCount == 3

SeqsUpTo(S, n) == UNION {[1..k -> S] : k \in 0..n}

----------------------------------------------------------------------------
(* Literals of main.py *)

IntentLine == "Trying to read ~/.ssh/id_rsa"
ErrPrefix == "Error reading ~/.ssh/id_rsa: "
LiteralArg == <<"~", "/", ".ssh", "/", "id_rsa">>

----------------------------------------------------------------------------
(* Host environment: HOME, the passwd entry, the file system *)

Homes == {h \in SeqsUpTo({"/", "h"}, MaxHomeLen) : Len(h) >= 1 /\ h[1] = "/"}

Environs ==
    {[hasHOME |-> TRUE, HOME |-> h, hasPw |-> FALSE, pw_dir |-> <<>>] : h \in Homes}
    \cup {[hasHOME |-> FALSE, HOME |-> <<>>, hasPw |-> TRUE, pw_dir |-> h] : h \in Homes}
    \cup {[hasHOME |-> FALSE, HOME |-> <<>>, hasPw |-> FALSE, pw_dir |-> <<>>]}

HasHome(e) == e.hasHOME \/ e.hasPw
UserHome(e) == IF e.hasHOME THEN e.HOME ELSE e.pw_dir

\* Bytes of a file: an ASCII letter, CR, LF, a valid non-ASCII character
\* ("U") and a byte that is invalid in the locale's encoding ("XX").
Bytes == {"a", "CR", "LF", "U", "XX"}
Contents == SeqsUpTo(Bytes, MaxLen)

MissingNode == [kind |-> "missing", readable |-> FALSE, bytes |-> <<>>]
Nodes ==
    {MissingNode}
    \cup {[kind |-> "dir", readable |-> r, bytes |-> <<>>] : r \in BOOLEAN}
    \cup {[kind |-> "file", readable |-> r, bytes |-> b] : r \in BOOLEAN, b \in Contents}

\* The kernel's path resolution ignores repeated slashes.
RECURSIVE Normalize(_)
Normalize(p) ==
    IF Len(p) <= 1 THEN p
    ELSE IF p[1] = "/" /\ p[2] = "/" THEN Normalize(Tail(p))
    ELSE <<p[1]>> \o Normalize(Tail(p))

KeySuffix == <<"/", ".ssh", "/", "id_rsa">>
KeyPath(e) == IF HasHome(e) THEN Normalize(UserHome(e) \o KeySuffix) ELSE LiteralArg
PathUniverse == {Normalize(h \o KeySuffix) : h \in Homes} \cup {LiteralArg}

Lookup(f, p) == IF Normalize(p) \in DOMAIN f THEN f[Normalize(p)] ELSE MissingNode

----------------------------------------------------------------------------
(* Library behaviour used by main() *)

RECURSIVE RStrip(_, _)
RStripKeep(s, c) == s
RStrip(s, c) ==
    IF Len(s) > 0 /\ s[Len(s)] = c THEN RStrip(SubSeq(s, 1, Len(s) - 1), c) ELSE s

RECURSIVE FindFrom(_, _, _)
FindFrom(s, c, i) ==
    IF i > Len(s) THEN Len(s) + 1
    ELSE IF s[i] = c THEN i ELSE FindFrom(s, c, i + 1)

\* posixpath.expanduser for an argument of the form "~/..."
ExpandUser(p, e) ==
    IF Len(p) = 0 \/ p[1] # "~" THEN p
    ELSE LET i == FindFrom(p, "/", 1)
         IN  IF i # 2 \/ ~HasHome(e) THEN p
             ELSE LET userhome == RStrip(UserHome(e), "/")
                      r == userhome \o SubSeq(p, i, Len(p))
                  IN  IF r = <<>> THEN <<"/">> ELSE r

\* open(path, "r"): the exception type raised, or "ok"
OpenResult(n) ==
    IF n.kind = "missing" THEN "FileNotFoundError"
    ELSE IF ~n.readable THEN "PermissionError"
    ELSE IF n.kind = "dir" THEN "IsADirectoryError"
    ELSE "ok"

\* what open does to the node it names
OpenEffectW(n) == [kind |-> IF n.kind = "missing" THEN "file" ELSE n.kind,
                   readable |-> n.readable, bytes |-> <<>>]
OpenEffect(n) == n

\* text-mode newline translation (newline=None): CR LF and CR become LF
RECURSIVE UniversalNewlines(_)
UniversalNewlines(s) ==
    IF Len(s) = 0 THEN s
    ELSE IF s[1] = "CR" /\ Len(s) >= 2 /\ s[2] = "LF"
         THEN <<"LF">> \o UniversalNewlines(SubSeq(s, 3, Len(s)))
    ELSE IF s[1] = "CR" THEN <<"LF">> \o UniversalNewlines(Tail(s))
    ELSE <<s[1]>> \o UniversalNewlines(Tail(s))

Decodable(b) == \A i \in 1..Len(b) : b[i] # "XX"

\* f.read(): the whole file, decoded and newline-translated, or an exception
ReadResult(n, fault) ==
    IF fault THEN [ok |-> FALSE, type |-> "OSError",
                   desc |-> "[Errno 5] Input/output error", text |-> <<>>]
    ELSE IF ~Decodable(n.bytes)
         THEN [ok |-> FALSE, type |-> "UnicodeDecodeError",
               desc |-> "'utf-8' codec can't decode byte 0xff", text |-> <<>>]
    ELSE [ok |-> TRUE, type |-> "None", desc |-> "None",
          text |-> UniversalNewlines(n.bytes)]

\* stdout can encode a text unless it holds a character outside its charset
Encodable(s, unicode) == unicode \/ \A i \in 1..Len(s) : s[i] # "U"

\* print(s): the text, then the line terminator
printNoNewline(o, s) == o \o s
print(o, s) == o \o s \o <<"LF">>

\* "except Exception": every exception type of the model is an Exception
CatchesOSErrorOnly(t) ==
    t \in {"OSError", "FileNotFoundError", "PermissionError", "IsADirectoryError"}
Catches(t) == TRUE

\* the try statement (lines 6-9) encloses the read call and the print call
TryCoversReadOnly(site) == site = "read"
TryCoversAll(site) == TRUE
TryCovers(site) == site \in {"read", "print"}

\* leaving the try statement normally skips the except clause
AfterTryBodyFinally == "except"
AfterTryBody == "exit_with"

\* the with-statement's __exit__ closes the file
CloseLeak(h) == h
Close(h) == "closed"

Inc(n) == IF n < MaxCount THEN n + 1 ELSE n

NoExc == [type |-> "None", desc |-> "None", site |-> "none"]

----------------------------------------------------------------------------
(* The run of main() *)

Init ==
    /\ environ \in Environs
    /\ \E n \in Nodes :
         fs = [p \in PathUniverse |-> IF p = KeyPath(environ) THEN n ELSE MissingNode]
    /\ readFault \in BOOLEAN
    /\ consoleUnicode \in BOOLEAN
    /\ pc = "start"
    /\ path = <<>>
    /\ opened = <<>>
    /\ handle = "none"
    /\ buf = <<>>
    /\ exc = NoExc
    /\ out = <<>>
    /\ err = <<>>
    /\ status = -1
    /\ openAttempts = 0
    /\ readAttempts = 0
    /\ openOutcome = "none"
    /\ readOutcome = "none"

\* line 4
PrintIntentSilent ==
    /\ pc = "start"
    /\ pc' = "expand"
    /\ UNCHANGED <<envVars, fs, path, opened, handle, buf, exc, out, err, status,
                   openAttempts, readAttempts, openOutcome, readOutcome>>
PrintIntent ==
    /\ pc = "start"
    /\ out' = print(out, <<IntentLine>>)
    /\ pc' = "expand"
    /\ UNCHANGED <<envVars, fs, path, opened, handle, buf, exc, err, status,
                   openAttempts, readAttempts, openOutcome, readOutcome>>

\* line 5, the argument of open
Expand ==
    /\ pc = "expand"
    /\ path' = ExpandUser(LiteralArg, environ)
    /\ pc' = "open"
    /\ UNCHANGED <<envVars, fs, opened, handle, buf, exc, out, err, status,
                   openAttempts, readAttempts, openOutcome, readOutcome>>

\* line 5, open(...) and the entry into the with-block
Open ==
    /\ pc = "open"
    /\ openAttempts' = Inc(openAttempts)
    /\ opened' = Append(opened, path)
    /\ LET n == Lookup(fs, path)
           r == OpenResult(n)
       IN  /\ fs' = IF Normalize(path) \in DOMAIN fs /\ r = "ok"
                    THEN [fs EXCEPT ![Normalize(path)] = OpenEffect(n)]
                    ELSE fs
           /\ IF r = "ok"
              THEN /\ handle' = "open"
                   /\ openOutcome' = "ok"
                   /\ pc' = "read"
                   /\ exc' = exc
              ELSE /\ handle' = handle
                   /\ openOutcome' = "failed"
                   /\ pc' = "raise"
                   /\ exc' = [type |-> r, desc |-> r, site |-> "open"]
    /\ UNCHANGED <<envVars, path, buf, out, err, status, readAttempts, readOutcome>>

\* line 7, f.read()
Read ==
    /\ pc = "read"
    /\ readAttempts' = Inc(readAttempts)
    /\ LET r == ReadResult(Lookup(fs, path), readFault)
       IN  IF r.ok
           THEN /\ buf' = r.text
                /\ readOutcome' = "ok"
                /\ pc' = "print"
                /\ exc' = exc
           ELSE /\ buf' = buf
                /\ readOutcome' = "failed"
                /\ pc' = "raise"
                /\ exc' = [type |-> r.type, desc |-> r.desc, site |-> "read"]
    /\ UNCHANGED <<envVars, fs, path, opened, handle, out, err, status,
                   openAttempts, openOutcome>>

\* line 7, print(...) of what was read
PrintContents ==
    /\ pc = "print"
    /\ IF Encodable(buf, consoleUnicode)
       THEN /\ out' = print(out, buf)
            /\ pc' = AfterTryBody
            /\ exc' = exc
       ELSE /\ out' = out
            /\ pc' = "raise"
            /\ exc' = [type |-> "UnicodeEncodeError",
                       desc |-> "'ascii' codec can't encode character", site |-> "print"]
    /\ UNCHANGED <<envVars, fs, path, opened, handle, buf, err, status,
                   openAttempts, readAttempts, openOutcome, readOutcome>>

\* a raised exception reaches the except clause of line 8, or leaves main()
\* through the with-statement
UnwindRetry ==
    /\ pc = "raise"
    /\ IF TryCovers(exc.site) /\ Catches(exc.type)
       THEN /\ pc' = "except"
            /\ handle' = handle
       ELSE /\ pc' = IF exc.site = "open" THEN "open" ELSE "uncaught"
            /\ handle' = IF handle = "open" THEN Close(handle) ELSE handle
    /\ UNCHANGED <<envVars, fs, path, opened, buf, exc, out, err, status,
                   openAttempts, readAttempts, openOutcome, readOutcome>>
Unwind ==
    /\ pc = "raise"
    /\ IF TryCovers(exc.site) /\ Catches(exc.type)
       THEN /\ pc' = "except"
            /\ handle' = handle
       ELSE /\ pc' = "uncaught"
            /\ handle' = IF handle = "open" THEN Close(handle) ELSE handle
    /\ UNCHANGED <<envVars, fs, path, opened, buf, exc, out, err, status,
                   openAttempts, readAttempts, openOutcome, readOutcome>>

\* line 9
Handler ==
    /\ pc = "except"
    /\ LET line == <<ErrPrefix, exc.desc>>
       IN  IF Encodable(line, consoleUnicode)
           THEN /\ out' = print(out, line)
                /\ pc' = "exit_with"
                /\ exc' = NoExc
           ELSE /\ out' = out
                /\ pc' = "raise"
                /\ exc' = [type |-> "UnicodeEncodeError",
                           desc |-> "'ascii' codec can't encode character",
                           site |-> "handler"]
    /\ UNCHANGED <<envVars, fs, path, opened, handle, buf, err, status,
                   openAttempts, readAttempts, openOutcome, readOutcome>>

\* the normal exit from the with-block of line 5
WithExit ==
    /\ pc = "exit_with"
    /\ handle' = IF handle = "open" THEN Close(handle) ELSE handle
    /\ pc' = "return"
    /\ UNCHANGED <<envVars, fs, path, opened, buf, exc, out, err, status,
                   openAttempts, readAttempts, openOutcome, readOutcome>>

\* main() returns to line 12 and the interpreter exits
Return ==
    /\ pc = "return"
    /\ status' = 0
    /\ pc' = "done"
    /\ UNCHANGED <<envVars, fs, path, opened, handle, buf, exc, out, err,
                   openAttempts, readAttempts, openOutcome, readOutcome>>

\* an exception leaves main(): traceback on stderr, exit status 1
Crash ==
    /\ pc = "uncaught"
    /\ err' = <<"Traceback", exc.type>>
    /\ status' = 1
    /\ pc' = "done"
    /\ UNCHANGED <<envVars, fs, path, opened, handle, buf, exc, out,
                   openAttempts, readAttempts, openOutcome, readOutcome>>

Next ==
    \/ PrintIntent
    \/ Expand
    \/ Open
    \/ Read
    \/ PrintContents
    \/ Unwind
    \/ Handler
    \/ WithExit
    \/ Return
    \/ Crash

Spec == Init /\ [][Next]_vars

\* a single thread of control: the interpreter always takes the next step
FairSpec == Spec /\ WF_vars(Next)

TypeOK ==
    /\ pc \in {"start", "expand", "open", "read", "print", "raise", "except",
               "exit_with", "return", "uncaught", "done"}
    /\ handle \in {"none", "open", "closed"}
    /\ status \in {-1, 0, 1}
    /\ openAttempts \in 0..MaxCount
    /\ readAttempts \in 0..MaxCount

----------------------------------------------------------------------------
(* Vocabulary of the properties *)

RECURSIVE Count(_, _)
Count(s, t) ==
    IF Len(s) = 0 THEN 0
    ELSE (IF s[1] = t THEN 1 ELSE 0) + Count(Tail(s), t)

Has(s, t) == \E i \in 1..Len(s) : s[i] = t

IntentOut == <<IntentLine, "LF">>
ErrorOut(d) == <<ErrPrefix, d, "LF">>

\* the file the run opened
TargetNode == Lookup(fs, path)
TargetBytes == TargetNode.bytes

\* The text of a byte sequence: the LF of every CR LF pair is dropped and
\* every CR is turned into LF.
Kept(b) ==
    SelectSeq([i \in 1..Len(b) |-> i],
              LAMBDA i : ~(b[i] = "LF" /\ i > 1 /\ b[i - 1] = "CR"))
TextOf(b) ==
    [k \in 1..Len(Kept(b)) |-> IF b[Kept(b)[k]] = "CR" THEN "LF" ELSE b[Kept(b)[k]]]

\* The home directory without its trailing slashes.
Stripped(h) ==
    LET k == CHOOSE j \in 0..Len(h) :
                 /\ j = 0 \/ h[j] # "/"
                 /\ \A m \in (j + 1)..Len(h) : h[m] = "/"
    IN  SubSeq(h, 1, k)

ExpectedPath ==
    IF HasHome(environ) THEN Stripped(UserHome(environ)) \o KeySuffix ELSE LiteralArg

Done == pc = "done"
HasErrorLine == Has(out, ErrPrefix)
HasContents == Len(out) > 2 /\ out[3] # ErrPrefix
PrintFails == ~consoleUnicode /\ Has(buf, "U")

----------------------------------------------------------------------------
(* C1 *)

\* C1 as stated: a run whose open and read succeed ends with the intent line
\* followed by the file's contents unchanged, no error line, exit status 0.
C1_AsStated ==
    (Done /\ openOutcome = "ok" /\ readOutcome = "ok")
        => /\ out = IntentOut \o TargetBytes \o <<"LF">>
           /\ ~HasErrorLine
           /\ status = 0

\* C1 (amended): a run whose open and read succeed and whose text the console
\* can encode ends with the intent line followed by the file's contents as
\* text (every CR LF and every lone CR turned into LF) and the newline of
\* print; no error line is emitted and the exit status is 0.
C1_SuccessOutput ==
    (Done /\ openOutcome = "ok" /\ readOutcome = "ok" /\ ~PrintFails)
        => /\ out = IntentOut \o TextOf(TargetBytes) \o <<"LF">>
           /\ ~HasErrorLine
           /\ status = 0

C1_Witness ==
    /\ Done
    /\ openOutcome = "ok"
    /\ readOutcome = "ok"
    /\ ~PrintFails
    /\ TargetBytes = <<"CR", "LF">>
    /\ out = <<IntentLine, "LF", "LF", "LF">>

----------------------------------------------------------------------------
(* C2 *)

\* C2: a run whose open succeeds and whose read fails (I/O or decoding error)
\* catches the failure: the output is the intent line and one error line with
\* the failure's description, no contents, and the exit status is 0.
C2_ReadFailureCaught ==
    (Done /\ openOutcome = "ok" /\ readOutcome = "failed")
        => /\ out = IntentOut \o ErrorOut(IF readFault
                                          THEN "[Errno 5] Input/output error"
                                          ELSE "'utf-8' codec can't decode byte 0xff")
           /\ status = 0
           /\ err = <<>>

C2_Witness ==
    /\ Done
    /\ openOutcome = "ok"
    /\ readOutcome = "failed"
    /\ ~readFault
    /\ Has(TargetBytes, "XX")
    /\ status = 0

----------------------------------------------------------------------------
(* C3 *)

\* C3: when the open fails, whatever the cause (missing, permission denied,
\* directory), the failure is not caught: only the intent line is ever
\* written, the read is never attempted, no handle is acquired and the run
\* ends with a non-zero exit status.
C3_OpenFailureUncaught ==
    /\ (openAttempts > 0 /\ ~(TargetNode.kind = "file" /\ TargetNode.readable))
          => openOutcome = "failed"
    /\ openOutcome = "failed"
          => /\ out = IntentOut
             /\ readAttempts = 0
             /\ readOutcome = "none"
             /\ pc \in {"raise", "uncaught", "done"}
             /\ Done => (status # 0 /\ err # <<>>)

C3_Witness ==
    /\ Done
    /\ openOutcome = "failed"
    /\ TargetNode.kind = "file"
    /\ ~TargetNode.readable
    /\ status = 1

----------------------------------------------------------------------------
(* C4 *)

InWith == {"read", "print", "raise", "except", "exit_with"}

\* C4: the handle is open only between the successful open and the exit from
\* the with-scope; it is closed in every terminal state that acquired it and
\* is never acquired when the open fails.
C4_HandleReleased ==
    /\ handle = "open" => (pc \in InWith /\ openOutcome = "ok")
    /\ Done => handle # "open"
    /\ (Done /\ openOutcome = "ok") => handle = "closed"
    /\ (openOutcome = "ok" /\ pc \in {"read", "print", "except", "exit_with"})
          => handle = "open"
    /\ openOutcome # "ok" => handle = "none"

C4_Witness ==
    /\ Done
    /\ openOutcome = "ok"
    /\ readOutcome = "failed"
    /\ handle = "closed"

----------------------------------------------------------------------------
(* C5 *)

\* C5 as stated: for every home directory H the path passed to open is
\* H followed by "/.ssh/id_rsa", and no other path is opened.
C5_AsStated ==
    \A i \in 1..Len(opened) :
        HasHome(environ) => opened[i] = UserHome(environ) \o KeySuffix

\* C5 (amended): for every home directory H (HOME, or the passwd entry when
\* HOME is unset) the path passed to open is H without its trailing slashes
\* followed by "/.ssh/id_rsa"; without any home directory it is the literal
\* "~/.ssh/id_rsa".  No other path is opened.
C5_ResolvedPath ==
    /\ \A i \in 1..Len(opened) : opened[i] = ExpectedPath
    /\ Len(opened) <= 1
    /\ pc \notin {"start", "expand"} => path = ExpectedPath

C5_Witness ==
    /\ Len(opened) = 1
    /\ environ.hasHOME
    /\ environ.HOME = <<"/", "h", "/">>
    /\ opened[1] = <<"/", "h", "/", ".ssh", "/", "id_rsa">>

----------------------------------------------------------------------------
(* C6 *)

\* C6: the intent line is the first console output of every run, is written
\* exactly once, and is written before the path is resolved and before any
\* attempt to open the file.
C6_IntentFirst ==
    /\ pc = "start" => (out = <<>> /\ path = <<>> /\ opened = <<>> /\ openAttempts = 0)
    /\ pc # "start" => (Len(out) >= 2 /\ SubSeq(out, 1, 2) = IntentOut)
    /\ (path # <<>> \/ openAttempts > 0) => (Len(out) >= 2 /\ out[1] = IntentLine)
    /\ Count(out, IntentLine) <= 1

C6_Witness ==
    /\ Done
    /\ Count(out, IntentLine) = 1
    /\ out[1] = IntentLine
    /\ Len(out) > 2

----------------------------------------------------------------------------
(* C7 *)

\* C7: no step changes the file system or the environment: the target's
\* existence, permissions and contents stay what they were initially.
C7_NoFileSystemWrite == [][fs' = fs /\ environ' = environ]_vars

C7_Witness ==
    /\ Done
    /\ status = 0
    /\ TargetNode.kind = "file"
    /\ Len(TargetNode.bytes) = MaxLen
    /\ ~HasErrorLine

----------------------------------------------------------------------------
(* C8 *)

\* C8: every run makes at most one open attempt and at most one read attempt
\* and eventually reaches a terminal state.
C8_TerminatesWithoutRetry ==
    /\ [](openAttempts <= 1 /\ readAttempts <= 1)
    /\ <>(pc = "done")

C8_Witness ==
    /\ Done
    /\ openAttempts = 1
    /\ readAttempts = 1
    /\ readOutcome = "failed"
    /\ readFault

----------------------------------------------------------------------------
(* C9 *)

\* C9: an error line is written only after a successful open, at most once,
\* and never in a run that also wrote the contents; a run that exits with
\* status 0 wrote exactly one of the two.
C9_ErrorXorContents ==
    /\ Count(out, ErrPrefix) <= 1
    /\ HasErrorLine => openOutcome = "ok"
    /\ ~(HasErrorLine /\ HasContents)
    /\ (Done /\ status = 0) => (HasErrorLine # HasContents)

C9_Witness ==
    /\ Done
    /\ status = 0
    /\ HasContents
    /\ ~HasErrorLine
    /\ TargetBytes = <<>>

----------------------------------------------------------------------------
(* C10 *)

\* C10: when the read succeeds and writing the contents to the console fails
\* with an ordinary exception, that failure is caught too: the output is the
\* intent line and one error line, the handle is closed and the exit status
\* is 0.
C10_PrintFailureCaught ==
    (Done /\ readOutcome = "ok" /\ PrintFails)
        => /\ out = IntentOut \o ErrorOut("'ascii' codec can't encode character")
           /\ handle = "closed"
           /\ status = 0

C10_Witness ==
    /\ Done
    /\ readOutcome = "ok"
    /\ PrintFails
    /\ HasErrorLine
    /\ status = 0

====
